---- MODULE Spec2Model ----
(***************************************************************************)
(* RealBox<T, A>: a heap container owning the storage of exactly one T,    *)
(* allocated through an allocator instance A (src/src/lib.rs).             *)
(*                                                                         *)
(* The model keeps the program's objects (RealBox values, Box<T> handles,  *)
(* Box<[T]> buffers), the allocators' live blocks with their bytes, and    *)
(* the log of every allocator call.  Each public operation is one action.  *)
(* The operations themselves are written as functions from a world record  *)
(* to a world record, in the order of the statements of the source; what   *)
(* the environment decides (the allocator's answer, the bytes of           *)
(* uninitialised memory, the effect of a call that breaks the allocator's  *)
(* contract) is a parameter the action draws from a set.                   *)
(***************************************************************************)
EXTENDS Integers, Sequences, FiniteSets, TLC

\* ------------------------------------------------------------- bounds
\* RealBox values built in one run of the full operation set.
MaxBoxes == 1
\* Repetitions of construct-then-drop in one run.
MaxCycles == 2
\* Longest Box<[T]> the caller builds.
MaxLen == 2
\* Explicit calls of the public unsafe dealloc_buffer on one box.
MaxExplicit == 1
\* Bytes of address space each allocator instance manages.
ArenaBytes == 16

\* ------------------------------------------------------------- types
\* The type parameter T: size, alignment and the fields (offset, width) of
\* the types the operations are instantiated with.  Marker is the test's
\* DummyStruct (zero-sized), Obj a struct {x: u32, a: [u8; 4]} without
\* padding, Padded a struct {c: u8, x: u32} whose bytes 1..3 are padding,
\* Owner a struct {h: u32, n: u32} with a destructor (impl Drop) that
\* releases the resource its value owns.
Types == {"Marker", "Obj", "Padded", "Owner"}

TypeInfo(T) ==
    CASE T = "Marker" -> [size |-> 0, align |-> 1, fields |-> << >>]
      [] T = "Obj"    -> [size |-> 8, align |-> 4,
                          fields |-> << [off |-> 0, len |-> 4],
                                        [off |-> 4, len |-> 4] >>]
      [] T = "Padded" -> [size |-> 8, align |-> 4,
                          fields |-> << [off |-> 0, len |-> 1],
                                        [off |-> 4, len |-> 4] >>]
      [] T = "Owner"  -> [size |-> 8, align |-> 4,
                          fields |-> << [off |-> 0, len |-> 4],
                                        [off |-> 4, len |-> 4] >>]

size_of(T) == TypeInfo(T).size

align_of(T) == TypeInfo(T).align

\* core::mem::needs_drop::<T>(): T has destructor logic of its own.
needs_drop(T) == T = "Owner"

\* NonNull::<T>::dangling(): the alignment of T taken as an address.
dangling(T) == align_of(T)

\* The null address (core::ptr::null_mut()).
null_mut == 0

\* -------------------------------------------------------- allocators
\* Allocator instances: the process-wide Global, and two instances A1, A2
\* of one caller-supplied allocator type, each managing its own arena.
Allocators == {"Global", "A1", "A2"}

AllocType(a) == IF a = "Global" THEN "Global" ELSE "Arena"

ArenaBase(a) ==
    CASE a = "Global" -> 16
      [] a = "A1"     -> 32
      [] a = "A2"     -> 48

Arena(a) == ArenaBase(a) .. (ArenaBase(a) + ArenaBytes - 1)

\* Bytes an uninitialised block may hold.
JunkBytes == {0, 170}

Layout(size, align) == [size |-> size, align |-> align]

\* ------------------------------------------------------------- state
VARIABLES
    boxes,      \* RealBox values, in construction order
    handles,    \* Box<T> handles produced by into_box / heap_init
    slices,     \* Box<[T]> buffers built by the caller
    live,       \* live blocks of all allocators, with their bytes
    log,        \* every call made on an allocator, in order
    status,     \* "running", "aborted" (handle_alloc_error), "ub"
    lastOp,     \* the operation performed last and what it returned
    stack_obj   \* the stack-resident value built beside heap_init

vars == << boxes, handles, slices, live, log, status, lastOp, stack_obj >>

\* The world the operations transform.
Cur ==
    [boxes |-> boxes, handles |-> handles, slices |-> slices,
     live |-> live, log |-> log, status |-> status]

\* ------------------------------------------------ the allocator (Alloc)
\* The allocator is an external collaborator: it hands out any aligned,
\* free range of its arena, or reports failure.  Which address it returns
\* is its own choice, so every free candidate is a possible answer.
Overlaps(b, p, size) == b.addr < p + size /\ p < b.addr + b.size

Candidates(w, a, layout) ==
    {p \in Arena(a) :
        /\ p % layout.align = 0
        /\ p + layout.size - 1 \in Arena(a)
        /\ \A b \in w.live : b.a = a => ~Overlaps(b, p, layout.size)}

\* Result<NonNull<u8>, AllocErr>, with the byte an uninitialised block holds.
AllocOutcomes(w, a, layout) ==
    {[ok |-> TRUE, addr |-> p, junk |-> j] :
        p \in Candidates(w, a, layout), j \in JunkBytes}
    \cup {[ok |-> FALSE, addr |-> null_mut, junk |-> 0]}

\* The answer slot of an operation that calls no allocator.
NoCall == [ok |-> TRUE, addr |-> null_mut, junk |-> 0]

Entry(call, a, addr, layout, ok, by) ==
    [call |-> call, a |-> a, addr |-> addr, size |-> layout.size,
     align |-> layout.align, ok |-> ok, by |-> by]

Block(a, addr, layout, byte) ==
    [a |-> a, addr |-> addr, size |-> layout.size, align |-> layout.align,
     bytes |-> [k \in 1..layout.size |-> byte]]

\* a.alloc_zeroed(layout) answering r.
Alloc_alloc_zeroed(w, a, layout, r, by) ==
    [w EXCEPT
        !.live = IF r.ok THEN @ \cup {Block(a, r.addr, layout, 0)} ELSE @,
        !.log = Append(@, Entry("alloc_zeroed", a, r.addr, layout, r.ok, by))]

\* a.alloc(layout) answering r: the block's bytes are uninitialised.
Alloc_alloc(w, a, layout, r, by) ==
    [w EXCEPT
        !.live = IF r.ok THEN @ \cup {Block(a, r.addr, layout, r.junk)} ELSE @,
        !.log = Append(@, Entry("alloc", a, r.addr, layout, r.ok, by))]

\* a.dealloc(addr, layout).  The contract: addr is a live block of a and
\* layout is the one it was allocated with.  A call outside the contract is
\* undefined behaviour: the block it names is released or not (u), the
\* entry of the call is marked not ok, and the run is marked "ub".
Alloc_dealloc(w, a, addr, layout, by, u) ==
    LET hit == {b \in w.live : b.a = a /\ b.addr = addr}
        valid == /\ hit # {}
                 /\ \A b \in hit : b.size = layout.size /\ b.align = layout.align
    IN  [w EXCEPT
            !.live = IF valid \/ u THEN @ \ hit ELSE @,
            !.log = Append(@, Entry("dealloc", a, addr, layout, valid, by)),
            !.status = IF valid THEN @ ELSE "ub"]

\* alloc::alloc::handle_alloc_error: the process ends.
handle_alloc_error(w) == [w EXCEPT !.status = "aborted"]

\* --------------------------------------------------------- RealBox<T, A>
\* struct RealBox { ptr, a }.  T, the allocator the box was built with (a0),
\* the constructor (origin), the lifecycle state and the number of explicit
\* dealloc_buffer calls (expl) are kept beside the two fields, and so is
\* the contained value: whether it owns a resource (val: "plain", "owning",
\* "released") and how often T's destructor ran on it (dtor).
RealBox(T, p, a, origin) ==
    [T |-> T, ptr |-> p, a |-> a, a0 |-> a, origin |-> origin,
     state |-> "live", expl |-> 0, val |-> "plain", dtor |-> 0]

Push(w, b) == [w EXCEPT !.boxes = Append(@, b)]

ByBox(i) == [kind |-> "box", id |-> i]

ByHandle(h) == [kind |-> "handle", id |-> h]

BySlice(s) == [kind |-> "slice", id |-> s]

\* A call the caller of from_raw_parts makes itself, for the box i it adopts.
ByCaller(i) == [kind |-> "caller", id |-> i]

ptr(w, i) == w.boxes[i].ptr

alloc(w, i) == w.boxes[i].a

\* alloc_mut hands out &mut self.a; a2 is what the caller leaves in it.
alloc_mut(w, i, a2) == [w EXCEPT !.boxes[i].a = a2]

\* current_layout scaled by a count of two elements.
current_layout_scaled(T) == Layout(size_of(T) * 2, align_of(T))

current_layout(T) == Layout(size_of(T), align_of(T))

\* dealloc_buffer with its size test inverted.
dealloc_buffer_inverted(w, i, u) ==
    LET elem_size == size_of(w.boxes[i].T)
    IN  IF elem_size = 0
        THEN Alloc_dealloc(w, w.boxes[i].a, w.boxes[i].ptr,
                           current_layout(w.boxes[i].T), ByBox(i), u)
        ELSE w

dealloc_buffer(w, i, u) ==
    LET elem_size == size_of(w.boxes[i].T)
    IN  IF elem_size # 0
        THEN Alloc_dealloc(w, w.boxes[i].a, w.boxes[i].ptr,
                           current_layout(w.boxes[i].T), ByBox(i), u)
        ELSE w

\* ptr::drop_in_place on the value of box i: T's destructor, if T has
\* one, runs and releases the resource the value owns.
drop_in_place(w, i) ==
    IF needs_drop(w.boxes[i].T)
    THEN [w EXCEPT !.boxes[i].dtor = @ + 1,
                   !.boxes[i].val = IF @ = "owning" THEN "released" ELSE @]
    ELSE w

\* A Drop that runs T's destructor before releasing the buffer.
drop_runs_destructor(w, i, u) ==
    [dealloc_buffer(drop_in_place(w, i), i, u) EXCEPT !.boxes[i].state = "dropped"]

\* A Drop that releases nothing.
drop_forgets_buffer(w, i, u) == [w EXCEPT !.boxes[i].state = "dropped"]

\* impl Drop for RealBox.
drop(w, i, u) == [dealloc_buffer(w, i, u) EXCEPT !.boxes[i].state = "dropped"]

\* allocate_in without the zero-size path: every T goes to the allocator.
allocate_in_always(w, zeroed, a, T, r, origin) ==
    LET layout == Layout(size_of(T), align_of(T))
        by == ByBox(Len(w.boxes) + 1)
        w1 == IF zeroed
              THEN Alloc_alloc_zeroed(w, a, layout, r, by)
              ELSE Alloc_alloc(w, a, layout, r, by)
    IN  IF r.ok
        THEN Push(w1, RealBox(T, r.addr, a, origin))
        ELSE handle_alloc_error(w1)

\* allocate_in that keeps the failed result as a null address.
allocate_in_null(w, zeroed, a, T, r, origin) ==
    LET elem_size == size_of(T)
        by == ByBox(Len(w.boxes) + 1)
    IN  IF elem_size = 0
        THEN Push(w, RealBox(T, dangling(T), a, origin))
        ELSE LET layout == Layout(elem_size, align_of(T))
                 w1 == IF zeroed
                       THEN Alloc_alloc_zeroed(w, a, layout, r, by)
                       ELSE Alloc_alloc(w, a, layout, r, by)
             IN  Push(w1, RealBox(T, r.addr, a, origin))

\* allocate_in that asks the allocator a second time after a failure.
allocate_in_retry(w, zeroed, a, T, r, origin) ==
    LET elem_size == size_of(T)
        by == ByBox(Len(w.boxes) + 1)
    IN  IF elem_size = 0
        THEN Push(w, RealBox(T, dangling(T), a, origin))
        ELSE LET layout == Layout(elem_size, align_of(T))
                 w1 == Alloc_alloc_zeroed(w, a, layout, r, by)
                 w2 == IF r.ok THEN w1 ELSE Alloc_alloc_zeroed(w1, a, layout, r, by)
             IN  IF r.ok
                 THEN Push(w2, RealBox(T, r.addr, a, origin))
                 ELSE handle_alloc_error(w2)

allocate_in(w, zeroed, a, T, r, origin) ==
    LET elem_size == size_of(T)
        by == ByBox(Len(w.boxes) + 1)
    IN  IF elem_size = 0
        THEN Push(w, RealBox(T, dangling(T), a, origin))
        ELSE LET layout == Layout(elem_size, align_of(T))
                 w1 == IF zeroed
                       THEN Alloc_alloc_zeroed(w, a, layout, r, by)
                       ELSE Alloc_alloc(w, a, layout, r, by)
             IN  IF r.ok
                 THEN Push(w1, RealBox(T, r.addr, a, origin))
                 ELSE handle_alloc_error(w1)

\* new_in asking for uninitialised memory.
new_in_uninit(w, a, T, r, origin) == allocate_in(w, FALSE, a, T, r, origin)

new_in(w, a, T, r, origin) == allocate_in(w, TRUE, a, T, r, origin)

new(w, T, r) == new_in(w, "Global", T, r, "new")

\* new_with_allocator that ignores the allocator it is given.
new_with_allocator_global(w, a, T, r) ==
    new_in(w, "Global", T, r, "new_with_allocator")

new_with_allocator(w, a, T, r) == new_in(w, a, T, r, "new_with_allocator")

\* into_box without its mem::forget.
forget_missing(w, i) == w

\* core::mem::forget(self): the value's destructor will not run.
forget(w, i) == [w EXCEPT !.boxes[i].state = "converted"]

\* A by-value parameter still owned when its function returns is dropped.
end_of_scope(w, i, u) == IF w.boxes[i].state = "live" THEN drop(w, i, u) ELSE w

\* Box::from_raw(p): a Box<T> owning the address p.
Box_from_raw(T, p, i) ==
    [T |-> T, ptr |-> p, state |-> "live", box |-> i, inits |-> 0, seen |-> << >>]

\* into_box that releases the buffer instead of forgetting the box.
into_box_releases(w, i, u) ==
    LET output == Box_from_raw(w.boxes[i].T, ptr(w, i), i)
        w1 == [w EXCEPT !.handles = Append(@, output)]
    IN  drop(w1, i, u)

into_box(w, i, u) ==
    LET output == Box_from_raw(w.boxes[i].T, ptr(w, i), i)
        w1 == [w EXCEPT !.handles = Append(@, output)]
        w2 == forget(w1, i)
    IN  end_of_scope(w2, i, u)

\* Teardown of a Box<T>: runs T's destructor on the value, then releases
\* its address through Global with T's layout.
Box_drop(w, h, u) ==
    LET hd == w.handles[h]
        w1 == [drop_in_place(w, hd.box) EXCEPT !.handles[h].state = "dropped"]
    IN  IF size_of(hd.T) # 0
        THEN Alloc_dealloc(w1, "Global", hd.ptr,
                           Layout(size_of(hd.T), align_of(hd.T)), ByHandle(h), u)
        ELSE w1

\* ------------------------------------------------------ values and bytes
\* The k-th byte (k = 1 is the lowest) of v stored little-endian.
le_byte(v, k) == (v \div (256 ^ (k - 1))) % 256

\* Values an initializer stores in a field of the given width.
FieldVals(len) == IF len = 1 THEN {255} ELSE {258}

\* The initializers: one value for every field of T.
Initializers(T) ==
    LET fs == TypeInfo(T).fields
    IN  {vals \in [1..Len(fs) -> {255, 258}] :
            \A f \in 1..Len(fs) : vals[f] \in FieldVals(fs[f].len)}

\* The bytes of a T after the assignments t.f = vals[f] for every field f:
\* a byte of a field takes the field's value, any other byte is kept.
write_fields(bytes, T, vals) ==
    LET fs == TypeInfo(T).fields
        owner(k) == {f \in 1..Len(fs) : fs[f].off < k /\ k <= fs[f].off + fs[f].len}
    IN  [k \in 1..size_of(T) |->
            IF owner(k) = {} THEN bytes[k]
            ELSE LET f == CHOOSE g \in owner(k) : TRUE
                 IN  le_byte(vals[f], k - fs[f].off)]

\* ptr::write(b.ptr(), value): the caller stores, through the address of
\* box i, a value whose fields are vals and which owns a resource.
write(w, i, vals) ==
    [w EXCEPT
        !.live = {IF b.a = w.boxes[i].a0 /\ b.addr = ptr(w, i)
                  THEN [b EXCEPT !.bytes = write_fields(@, w.boxes[i].T, vals)]
                  ELSE b : b \in @},
        !.boxes[i].val = "owning"]

\* The bytes of the value a Box<T> at address p owns (none for a
\* zero-sized T, which has no block).
as_mut(w, p) ==
    LET blk == {b \in w.live : b.a = "Global" /\ b.addr = p}
    IN  IF blk = {} THEN << >> ELSE (CHOOSE b \in blk : TRUE).bytes

\* initialize(t.as_mut()) on the value the handle h owns; the handle keeps
\* how often an initializer ran on it (inits) and the bytes the value had
\* when the initializer started (seen).
initialize(w, h, vals) ==
    LET hd == w.handles[h]
    IN  [w EXCEPT !.live =
            {IF b.a = "Global" /\ b.addr = hd.ptr
             THEN [b EXCEPT !.bytes = write_fields(@, hd.T, vals)]
             ELSE b : b \in @},
                  !.handles[h].inits = @ + 1,
                  !.handles[h].seen = as_mut(w, hd.ptr)]

\* heap_init on memory that was not asked to be zeroed.
heap_init_uninit(w, T, r, vals, u) ==
    LET w1 == allocate_in(w, FALSE, "Global", T, r, "heap_init")
    IN  IF w1.status # "running" THEN w1
        ELSE LET t == into_box(w1, Len(w1.boxes), u)
             IN  initialize(t, Len(t.handles), vals)

heap_init(w, T, r, vals, u) ==
    LET w1 == new_in(w, "Global", T, r, "heap_init")
    IN  IF w1.status # "running" THEN w1
        ELSE LET t == into_box(w1, Len(w1.boxes), u)
             IN  initialize(t, Len(t.handles), vals)

\* let stack_obj = Obj { .. }: the fields hold vals, the padding bytes are
\* not initialised (pad).
stack_value(T, vals, pad) ==
    [T |-> T, bytes |-> write_fields([k \in 1..size_of(T) |-> pad], T, vals)]

\* --------------------------------------------------- adoption of storage
from_raw_parts(w, T, p, a, origin) == Push(w, RealBox(T, p, a, origin))

\* A Box<[T]> of len elements, as the caller builds it (for instance
\* vec![..].into_boxed_slice()): one Global block of len * size_of(T)
\* bytes, or the dangling address when that is zero bytes.
slice_layout(T, len) == Layout(len * size_of(T), align_of(T))

make_slice(w, T, len, r) ==
    LET s == Len(w.slices) + 1
        layout == slice_layout(T, len)
        rec(p) == [T |-> T, len |-> len, ptr |-> p, state |-> "owned", box |-> 0]
    IN  IF layout.size = 0
        THEN [w EXCEPT !.slices = Append(@, rec(dangling(T)))]
        ELSE LET w1 == Alloc_alloc(w, "Global", layout, r, BySlice(s))
             IN  IF r.ok
                 THEN [w1 EXCEPT !.slices = Append(@, rec(r.addr))]
                 ELSE handle_alloc_error(w1)

\* slice.as_mut_ptr()
as_mut_ptr(w, s) == w.slices[s].ptr

\* Teardown of a Box<[T]>: releases the whole buffer through Global.
slice_drop(w, s, u) ==
    LET sl == w.slices[s]
        w1 == [w EXCEPT !.slices[s].state = "dropped"]
    IN  IF slice_layout(sl.T, sl.len).size # 0
        THEN Alloc_dealloc(w1, "Global", sl.ptr, slice_layout(sl.T, sl.len),
                           BySlice(s), u)
        ELSE w1

\* from_box without its mem::forget.
forget_slice_missing(w, s) == w

\* core::mem::forget(slice)
forget_slice(w, s) == [w EXCEPT !.slices[s].state = "forgotten"]

end_of_scope_slice(w, s, u) ==
    IF w.slices[s].state = "owned" THEN slice_drop(w, s, u) ELSE w

from_box(w, s, u) ==
    LET result == from_raw_parts(w, w.slices[s].T, as_mut_ptr(w, s), "Global", "from_box")
        w1 == [result EXCEPT !.slices[s].box = Len(result.boxes)]
        w2 == forget_slice(w1, s)
    IN  end_of_scope_slice(w2, s, u)

\* ---------------------------------------------------------------- actions
Init ==
    /\ boxes = << >>
    /\ handles = << >>
    /\ slices = << >>
    /\ live = {}
    /\ log = << >>
    /\ status = "running"
    /\ lastOp = [name |-> "init", id |-> 0, ptr |-> null_mut, a |-> "", calls |-> 0]
    /\ stack_obj = [T |-> "", bytes |-> << >>]

\* The world w becomes the state; lastOp records the operation, the object
\* it acted on, what it returned and the allocator calls it made on the
\* world w0 it started from.
Commit(w0, w, name, id, p, a) ==
    /\ boxes' = w.boxes
    /\ handles' = w.handles
    /\ slices' = w.slices
    /\ live' = w.live
    /\ log' = w.log
    /\ status' = w.status
    /\ lastOp' = [name |-> name, id |-> id, ptr |-> p, a |-> a,
                  calls |-> Len(w.log) - Len(w0.log)]

Running == status = "running"

LiveBoxes == {i \in 1..Len(boxes) : boxes[i].state = "live"}

\* What the allocator a may answer to a construction of a T.
Outcomes(w, a, T) ==
    IF size_of(T) = 0 THEN {NoCall} ELSE AllocOutcomes(w, a, current_layout(T))

\* The address held by the box a constructor returned, if it returned.
Built(w) == IF w.status = "running" THEN w.boxes[Len(w.boxes)].ptr ELSE null_mut

\* The types the constructors are instantiated with (Obj and Padded differ
\* from Owner only in what an initializer leaves untouched and in having no
\* destructor).
BoxTypes == {"Marker", "Owner"}

\* The types of the storage handed to from_raw_parts and from_box.
AdoptTypes == {"Marker", "Obj"}

\* The types heap_init is instantiated with.
InitTypes == {"Marker", "Obj", "Padded"}

Do_new ==
    \E T \in BoxTypes : \E r \in Outcomes(Cur, "Global", T) :
        LET w == new(Cur, T, r)
        IN  Commit(Cur, w, "new", Len(boxes) + 1, Built(w), "Global")

Do_new_with_allocator ==
    \E T \in BoxTypes, a \in Allocators : \E r \in Outcomes(Cur, a, T) :
        LET w == new_with_allocator(Cur, a, T, r)
        IN  Commit(Cur, w, "new_with_allocator", Len(boxes) + 1, Built(w), a)

Step_new ==
    /\ Running /\ Len(boxes) < MaxBoxes
    /\ Do_new
    /\ UNCHANGED stack_obj

Step_new_with_allocator ==
    /\ Running /\ Len(boxes) < MaxBoxes
    /\ Do_new_with_allocator
    /\ UNCHANGED stack_obj

\* unsafe from_raw_parts(ptr, a): the caller passes any allocator and the
\* address of some live block, the dangling address, or (fresh) the address
\* of a block it has just allocated on a2 with the layout of T.
Step_from_raw_parts ==
    /\ Running /\ Len(boxes) < MaxBoxes
    /\ \E T \in AdoptTypes, a \in Allocators, a2 \in Allocators, fresh \in BOOLEAN :
        \E r \in IF fresh /\ size_of(T) # 0
                 THEN {x \in AllocOutcomes(Cur, a2, current_layout(T)) : x.ok /\ x.junk = 0}
                 ELSE {NoCall} :
            LET w0 == IF r = NoCall THEN Cur
                      ELSE Alloc_alloc(Cur, a2, current_layout(T), r,
                                       ByCaller(Len(boxes) + 1))
            IN  \E p \in IF r = NoCall
                         THEN {b.addr : b \in live} \cup {dangling(T)}
                         ELSE {r.addr} :
                    /\ (r = NoCall) => (a2 = a /\ ~fresh)
                    /\ Commit(w0, from_raw_parts(w0, T, p, a, "from_raw_parts"),
                              "from_raw_parts", Len(boxes) + 1, p, a)
    /\ UNCHANGED stack_obj

\* from_box(slice) on a Box<[T]> of any length the caller built.
Step_from_box ==
    /\ Running /\ Len(boxes) < MaxBoxes
    /\ \E T \in AdoptTypes, len \in 0..MaxLen, u \in BOOLEAN :
        \E r \in {x \in AllocOutcomes(Cur, "Global", slice_layout(T, len)) :
                    x.ok /\ x.junk = 0} \cup {NoCall} :
            LET w0 == make_slice(Cur, T, len, r)
                w == from_box(w0, Len(w0.slices), u)
            IN  /\ (r = NoCall) = (slice_layout(T, len).size = 0)
                /\ Commit(w0, w, "from_box", Len(boxes) + 1, Built(w), "Global")
    /\ UNCHANGED stack_obj

Step_ptr ==
    /\ Running
    /\ \E i \in LiveBoxes : Commit(Cur, Cur, "ptr", i, ptr(Cur, i), "")
    /\ UNCHANGED stack_obj

\* Write access to the contained value through ptr(): the caller stores a
\* value owning a resource in the storage of a box whose block is live.
Step_write ==
    /\ Running
    /\ \E i \in LiveBoxes : \E vals \in Initializers(boxes[i].T) :
        /\ needs_drop(boxes[i].T) /\ boxes[i].val = "plain"
        /\ \E b \in live : b.a = boxes[i].a0 /\ b.addr = boxes[i].ptr
                            /\ b.size = size_of(boxes[i].T)
        /\ Commit(Cur, write(Cur, i, vals), "write", i, ptr(Cur, i), "")
    /\ UNCHANGED stack_obj

Step_alloc ==
    /\ Running
    /\ \E i \in LiveBoxes : Commit(Cur, Cur, "alloc", i, null_mut, alloc(Cur, i))
    /\ UNCHANGED stack_obj

\* Through the &mut A the caller may store any instance of the type A.
Step_alloc_mut ==
    /\ Running
    /\ \E i \in LiveBoxes :
        \E a2 \in {x \in Allocators : AllocType(x) = AllocType(boxes[i].a)} :
            Commit(Cur, alloc_mut(Cur, i, a2), "alloc_mut", i, null_mut, a2)
    /\ UNCHANGED stack_obj

Step_dealloc_buffer ==
    /\ Running
    /\ \E i \in LiveBoxes, u \in BOOLEAN :
        /\ boxes[i].expl < MaxExplicit
        /\ LET w == dealloc_buffer(Cur, i, u)
           IN  Commit(Cur, [w EXCEPT !.boxes[i].expl = @ + 1], "dealloc_buffer",
                      i, null_mut, boxes[i].a)
    /\ UNCHANGED stack_obj

Step_drop ==
    /\ Running
    /\ \E i \in LiveBoxes, u \in BOOLEAN :
        Commit(Cur, drop(Cur, i, u), "drop", i, null_mut, boxes[i].a)
    /\ UNCHANGED stack_obj

\* into_box exists for RealBox<T, Global> only.
Step_into_box ==
    /\ Running
    /\ \E i \in LiveBoxes, u \in BOOLEAN :
        /\ AllocType(boxes[i].a) = "Global"
        /\ LET w == into_box(Cur, i, u)
           IN  Commit(Cur, w, "into_box", i, w.handles[Len(w.handles)].ptr, "Global")
    /\ UNCHANGED stack_obj

\* heap_init with an initializer that stores vals, beside a stack-resident
\* value of the same type built from the same vals.
Step_heap_init ==
    /\ Running /\ Len(boxes) < MaxBoxes
    /\ \E T \in InitTypes, u \in BOOLEAN, pad \in JunkBytes :
        \E r \in Outcomes(Cur, "Global", T), vals \in Initializers(T) :
            LET w == heap_init(Cur, T, r, vals, u)
            IN  /\ Commit(Cur, w, "heap_init", Len(boxes) + 1, Built(w), "Global")
                /\ stack_obj' = stack_value(T, vals, pad)

Step_box_drop ==
    /\ Running
    /\ \E h \in 1..Len(handles), u \in BOOLEAN :
        /\ handles[h].state = "live"
        /\ Commit(Cur, Box_drop(Cur, h, u), "box_drop", h, null_mut, "Global")
    /\ UNCHANGED stack_obj

Next ==
    \/ Step_new
    \/ Step_new_with_allocator
    \/ Step_from_raw_parts
    \/ Step_from_box
    \/ Step_ptr
    \/ Step_write
    \/ Step_alloc
    \/ Step_alloc_mut
    \/ Step_dealloc_buffer
    \/ Step_drop
    \/ Step_into_box
    \/ Step_heap_init
    \/ Step_box_drop

Spec == Init /\ [][Next]_vars

\* Construct-then-drop, repeated: a box is built by new or
\* new_with_allocator only once the one before it has been dropped.
Cycle_new ==
    /\ Running /\ Len(boxes) < MaxCycles /\ LiveBoxes = {}
    /\ Do_new
    /\ UNCHANGED stack_obj

Cycle_new_with_allocator ==
    /\ Running /\ Len(boxes) < MaxCycles /\ LiveBoxes = {}
    /\ Do_new_with_allocator
    /\ UNCHANGED stack_obj

Cycle_drop == Step_drop

NextCycle ==
    \/ Cycle_new
    \/ Cycle_new_with_allocator
    \/ Cycle_drop

SpecCycle == Init /\ [][NextCycle]_vars

\* ------------------------------------------------------------ properties
Boxes == 1..Len(boxes)

\* Built by one of the two allocating constructors.
Constructed(b) == b.origin \in {"new", "new_with_allocator"}

NonZeroSized(b) == size_of(b.T) # 0

CallsBy(by) == {k \in 1..Len(log) : log[k].by = by}

AllocsBy(by) == {k \in CallsBy(by) : log[k].call \in {"alloc", "alloc_zeroed"}}

DeallocsBy(by) == {k \in CallsBy(by) : log[k].call = "dealloc"}

\* The dealloc requests naming the address of box i, made on the allocator
\* that produced it, from its allocation until the address is handed out
\* again.
Releases(i) ==
    LET m0 == CHOOSE m \in AllocsBy(ByBox(i)) : TRUE
        same(k) == log[k].addr = log[m0].addr /\ log[k].a = log[m0].a
    IN  {k \in 1..Len(log) :
            /\ k > m0 /\ log[k].call = "dealloc" /\ same(k)
            /\ ~\E m \in (m0 + 1)..(k - 1) :
                  log[m].call # "dealloc" /\ log[m].ok /\ same(m)}

\* No other box was handed the address of box i by the unsafe
\* from_raw_parts or released storage through the unsafe dealloc_buffer.
Undisturbed(i) ==
    \A j \in Boxes \ {i} :
        boxes[j].origin # "from_raw_parts" /\ boxes[j].expl = 0

Outstanding(a) == Cardinality({b \in live : b.a = a})

\* The k-th call is an allocation the allocator refused.
Refused(k) == log[k].call # "dealloc" /\ ~log[k].ok

\* C1: a box for a zero-sized T built by new or new_with_allocator holds
\* the dangling address of T, whatever its allocator, and from construction
\* to drop no allocate, allocate_zeroed or deallocate call is made for it.
C1_ZeroSizedNeverAllocates ==
    \A i \in Boxes :
        (Constructed(boxes[i]) /\ ~NonZeroSized(boxes[i])) =>
            /\ boxes[i].ptr = dangling(boxes[i].T)
            /\ CallsBy(ByBox(i)) = {}
            /\ \A k \in 1..Len(log) : log[k].addr # boxes[i].ptr

C1_Witness ==
    \E i \in Boxes :
        /\ boxes[i].origin = "new_with_allocator" /\ boxes[i].a0 = "A1"
        /\ boxes[i].T = "Marker" /\ boxes[i].state = "dropped"

\* C2: for a non-zero-sized T, after new(), into_box() and the teardown of
\* the Box, the address has been deallocated exactly once, by the Box; the
\* RealBox is disarmed and issues no deallocate.
C2_IntoBoxReleasesOnce ==
    \A h \in 1..Len(handles) :
        LET i == handles[h].box
        IN  (/\ boxes[i].origin = "new" /\ NonZeroSized(boxes[i])
             /\ boxes[i].expl = 0 /\ handles[h].state = "dropped") =>
                /\ boxes[i].state = "converted"
                /\ DeallocsBy(ByBox(i)) = {}
                /\ Cardinality(DeallocsBy(ByHandle(h))) = 1
                /\ \A k \in DeallocsBy(ByHandle(h)) :
                      log[k].addr = boxes[i].ptr /\ log[k].a = "Global"
                /\ Undisturbed(i) =>
                      /\ Releases(i) = DeallocsBy(ByHandle(h))
                      /\ \A k \in Releases(i) : log[k].ok

C2_Witness ==
    \E h \in 1..Len(handles) :
        /\ boxes[handles[h].box].origin = "new"
        /\ NonZeroSized(boxes[handles[h].box])
        /\ handles[h].state = "dropped"
        /\ lastOp.name = "box_drop"

\* C3: under repeated construct-then-drop, the blocks outstanding in every
\* allocator are exactly those of the boxes still alive (none after each
\* drop), and every allocation made by a construction is matched by exactly
\* one deallocate of the same address on the same allocator.
C3_ConstructDropNeverLeaks ==
    /\ \A a \in Allocators :
          Outstanding(a) =
              Cardinality({i \in LiveBoxes : boxes[i].a = a /\ NonZeroSized(boxes[i])})
    /\ \A i \in Boxes :
          (boxes[i].state = "dropped" /\ NonZeroSized(boxes[i])) =>
              /\ Cardinality(AllocsBy(ByBox(i))) = 1
              /\ Cardinality(DeallocsBy(ByBox(i))) = 1
              /\ Releases(i) = DeallocsBy(ByBox(i))
    /\ status # "ub"

C3_Witness ==
    /\ Len(boxes) >= 2
    /\ \A i \in Boxes : boxes[i].state = "dropped" /\ boxes[i].T = "Owner"
                        /\ boxes[i].a0 = "A1"
    /\ live = {}

\* C4 (as claimed): from_box makes no allocate call and leaves the source
\* buffer's teardown unrun, and the deallocate the adopting box issues when
\* it is dropped carries the address and the layout the buffer was
\* allocated with.
C4_FromBoxSameLayout ==
    \A s \in 1..Len(slices) :
        LET i == slices[s].box
        IN  /\ AllocsBy(ByBox(i)) = {}
            /\ slices[s].state = "forgotten"
            /\ DeallocsBy(BySlice(s)) = {}
            /\ \A k \in DeallocsBy(ByBox(i)) :
                  boxes[i].expl = 0 =>
                  \E m \in AllocsBy(BySlice(s)) :
                      /\ m < k
                      /\ log[k].addr = log[m].addr
                      /\ log[k].size = log[m].size
                      /\ log[k].align = log[m].align

\* C5 (as claimed): a box of a non-zero-sized T issues at most one
\* deallocate, none if it was converted and exactly one if it was dropped.
C5_OneEnding ==
    \A i \in Boxes :
        NonZeroSized(boxes[i]) =>
            /\ Cardinality(DeallocsBy(ByBox(i))) <= 1
            /\ boxes[i].state = "converted" => DeallocsBy(ByBox(i)) = {}
            /\ boxes[i].state = "dropped" => Cardinality(DeallocsBy(ByBox(i))) = 1

\* C6: a box for a non-zero-sized T built by new or new_with_allocator
\* holds a non-null, non-dangling address, the one its allocator returned
\* from the single successful call made for it; no box exists for a call
\* that failed.
C6_HoldsReturnedAddress ==
    /\ \A i \in Boxes :
          (Constructed(boxes[i]) /\ NonZeroSized(boxes[i])) =>
              /\ boxes[i].ptr # null_mut
              /\ boxes[i].ptr # dangling(boxes[i].T)
              /\ Cardinality(AllocsBy(ByBox(i))) = 1
              /\ \A k \in AllocsBy(ByBox(i)) :
                    log[k].ok /\ log[k].addr = boxes[i].ptr /\ log[k].a = boxes[i].a0
    /\ \A k \in 1..Len(log) :
          Refused(k) => log[k].by.kind = "box" /\ log[k].by.id > Len(boxes)

C6_Witness ==
    \E i \in Boxes :
        /\ Constructed(boxes[i]) /\ NonZeroSized(boxes[i])
        /\ boxes[i].a0 = "A2" /\ boxes[i].ptr \in Arena("A2")

\* C7: when the allocator reports failure to a construction, the process
\* is ended by handle_alloc_error right after that one call: the failed
\* call is the last call made on any allocator, it is the only call of the
\* operation, no box was produced for it and nothing was deallocated for it.
C7_FailureIsFatal ==
    /\ \A k \in 1..Len(log) : Refused(k) => status = "aborted" /\ k = Len(log)
    /\ status = "aborted" =>
          /\ Len(log) > 0 /\ Refused(Len(log))
          /\ lastOp.calls = 1 /\ lastOp.ptr = null_mut
          /\ log[Len(log)].by = ByBox(Len(boxes) + 1)
          /\ Cardinality(CallsBy(ByBox(Len(boxes) + 1))) = 1

C7_Witness ==
    /\ status = "aborted"
    /\ lastOp.name = "new_with_allocator"
    /\ log[Len(log)].a = "A1"

HeapImage(h) ==
    LET blk == {b \in live : b.a = "Global" /\ b.addr = handles[h].ptr}
    IN  IF blk = {} THEN << >> ELSE (CHOOSE b \in blk : TRUE).bytes

\* Byte k of a T belongs to one of its fields.
IsFieldByte(T, k) ==
    \E f \in 1..Len(TypeInfo(T).fields) :
        /\ TypeInfo(T).fields[f].off < k
        /\ k <= TypeInfo(T).fields[f].off + TypeInfo(T).fields[f].len

HasPadding(T) == \E k \in 1..size_of(T) : ~IsFieldByte(T, k)

HeapInitReturned == lastOp.name = "heap_init" /\ status = "running"

\* C9 (as claimed): the value heap_init returns, its initializer having
\* written every field, is byte for byte the stack-resident value of the
\* same type built with the same field values.
C9_HeapImageEqualsStackImage ==
    HeapInitReturned => HeapImage(Len(handles)) = stack_obj.bytes

\* C9 (amended): the value heap_init returns agrees with the stack-resident
\* value on every byte of every field, and its padding bytes are zero (the
\* stack value's padding is uninitialised); for a type without padding the
\* two images are byte for byte identical.
C9_HeapImageEqualsOnFields ==
    HeapInitReturned =>
        LET T == stack_obj.T
            heap == HeapImage(Len(handles))
        IN  /\ handles[Len(handles)].T = T
            /\ Len(heap) = size_of(T)
            /\ \A k \in 1..size_of(T) :
                  IF IsFieldByte(T, k) THEN heap[k] = stack_obj.bytes[k]
                  ELSE heap[k] = 0
            /\ ~HasPadding(T) => heap = stack_obj.bytes

C9_Witness ==
    /\ HeapInitReturned
    /\ stack_obj.T = "Obj"
    /\ HeapImage(Len(handles)) = << 2, 1, 0, 0, 2, 1, 0, 0 >>
    /\ HeapImage(Len(handles)) = stack_obj.bytes

\* C10 (as claimed): whatever safe operations were applied to a box built
\* by new or new_with_allocator, alloc_mut included, every deallocate for
\* its address is made on the allocator instance that produced the address.
C10_DeallocOnProducingAllocator ==
    \A i \in Boxes :
        (Constructed(boxes[i]) /\ boxes[i].expl = 0) =>
            \A k \in DeallocsBy(ByBox(i)) : log[k].a = boxes[i].a0

\* A step of the operation into_box (heap_init's own conversion is part of
\* the heap_init step).
IntoBoxStep == lastOp'.name = "into_box" /\ Len(handles') = Len(handles) + 1

\* C11: into_box makes no allocator call: the call log and the set of live
\* blocks are the same before and after it, and the handle it returns
\* points at the address the box held.
C11_IntoBoxIsPureTransfer ==
    [][IntoBoxStep =>
          /\ log' = log
          /\ live' = live
          /\ lastOp'.calls = 0
          /\ handles'[Len(handles')].ptr = boxes[lastOp'.id].ptr
          /\ lastOp'.ptr = boxes[lastOp'.id].ptr
          /\ boxes'[lastOp'.id].ptr = boxes[lastOp'.id].ptr]_vars

C11_Witness ==
    /\ lastOp.name = "into_box"
    /\ boxes[lastOp.id].origin = "new" /\ NonZeroSized(boxes[lastOp.id])
    /\ boxes[lastOp.id].state = "converted"
    /\ handles[Len(handles)].ptr = boxes[lastOp.id].ptr
    /\ \E b \in live : b.a = "Global" /\ b.addr = boxes[lastOp.id].ptr

\* A step in which a live box is dropped, or its buffer explicitly released.
TeardownStep ==
    /\ lastOp'.name \in {"drop", "dealloc_buffer"}
    /\ lastOp'.id \in LiveBoxes
    /\ boxes' # boxes

\* C12: dropping a box (or releasing its buffer explicitly) never runs T's
\* destructor: the contained value owns after the step exactly what it owned
\* before and the destructor count is unchanged; the only allocator calls
\* of the step are deallocate requests made for that box, and no other box,
\* handle or slice is touched.
C12_DropLeavesValueAlone ==
    [][TeardownStep =>
          LET i == lastOp'.id
          IN  /\ boxes'[i].val = boxes[i].val
              /\ boxes'[i].dtor = boxes[i].dtor
              /\ \A k \in (Len(log) + 1)..Len(log') :
                    log'[k].call = "dealloc" /\ log'[k].by = ByBox(i)
              /\ \A j \in Boxes \ {i} : boxes'[j] = boxes[j]
              /\ handles' = handles /\ slices' = slices]_vars

C12_Witness ==
    /\ lastOp.name = "drop"
    /\ boxes[lastOp.id].state = "dropped"
    /\ needs_drop(boxes[lastOp.id].T)
    /\ boxes[lastOp.id].val = "owning" /\ boxes[lastOp.id].dtor = 0
    /\ Cardinality(DeallocsBy(ByBox(lastOp.id))) = 1

\* C13: for a box of non-zero-sized T built by new or new_with_allocator,
\* every deallocate request the box issues carries the layout of its
\* construction request, which is (size_of(T), align_of(T)) for a single
\* element, and the address stored in the box.
C13_DeallocLayoutIsConstructionLayout ==
    \A i \in Boxes :
        (Constructed(boxes[i]) /\ NonZeroSized(boxes[i])) =>
            \A m \in AllocsBy(ByBox(i)), k \in DeallocsBy(ByBox(i)) :
                /\ log[m].size = size_of(boxes[i].T)
                /\ log[m].align = align_of(boxes[i].T)
                /\ log[k].size = log[m].size
                /\ log[k].align = log[m].align
                /\ log[k].addr = boxes[i].ptr
                /\ log[k].addr = log[m].addr

C13_Witness ==
    /\ lastOp.name = "drop"
    /\ Constructed(boxes[lastOp.id]) /\ NonZeroSized(boxes[lastOp.id])
    /\ boxes[lastOp.id].state = "dropped"
    /\ \E k \in DeallocsBy(ByBox(lastOp.id)) :
          /\ k = Len(log)
          /\ log[k].size = 8 /\ log[k].align = 4
          /\ log[k].addr = boxes[lastOp.id].ptr

\* C14: when heap_init returns, its one allocator call (none for a
\* zero-sized T) was a successful alloc_zeroed for T on Global; the box it
\* built was converted to the handle returned, which holds the allocated
\* address; and the initializer ran exactly once on that handle, finding
\* every byte of the value zero when it started.
C14_HeapInitOrder ==
    /\ HeapInitReturned =>
          LET h == Len(handles)
              i == lastOp.id
              T == boxes[i].T
          IN  /\ handles[h].box = i /\ handles[h].T = T
              /\ boxes[i].origin = "heap_init" /\ boxes[i].state = "converted"
              /\ handles[h].ptr = boxes[i].ptr /\ lastOp.ptr = handles[h].ptr
              /\ handles[h].inits = 1
              /\ IF size_of(T) = 0
                 THEN lastOp.calls = 0 /\ handles[h].ptr = dangling(T)
                 ELSE /\ lastOp.calls = 1
                      /\ log[Len(log)].call = "alloc_zeroed"
                      /\ log[Len(log)].a = "Global" /\ log[Len(log)].ok
                      /\ log[Len(log)].by = ByBox(i)
                      /\ log[Len(log)].size = size_of(T)
                      /\ log[Len(log)].align = align_of(T)
                      /\ log[Len(log)].addr = handles[h].ptr
    /\ \A h \in 1..Len(handles) :
          boxes[handles[h].box].origin = "heap_init" =>
              /\ handles[h].inits = 1
              /\ handles[h].seen = [k \in 1..size_of(handles[h].T) |-> 0]

C14_Witness ==
    /\ HeapInitReturned
    /\ stack_obj.T = "Padded"
    /\ handles[Len(handles)].inits = 1
    /\ handles[Len(handles)].seen = << 0, 0, 0, 0, 0, 0, 0, 0 >>
    /\ HeapImage(Len(handles)) = << 255, 0, 0, 0, 2, 1, 0, 0 >>
    /\ log[Len(log)].addr = handles[Len(handles)].ptr

\* Built by one of the three public allocating constructors.
Allocating(b) == b.origin \in {"new", "new_with_allocator", "heap_init"}

\* The operation just performed was new or new_with_allocator and returned.
ConstructorReturned ==
    lastOp.name \in {"new", "new_with_allocator"} /\ status = "running"

\* The bytes of the block the box i was built on.
BoxImage(i) ==
    LET blk == {b \in live : b.a = boxes[i].a0 /\ b.addr = boxes[i].ptr}
    IN  IF blk = {} THEN << >> ELSE (CHOOSE b \in blk : TRUE).bytes

\* C15: every allocating request made for a box by new, new_with_allocator
\* or heap_init is an alloc_zeroed, never an alloc, so that right after
\* construction every byte of the value is zero; new_with_allocator makes
\* the request on the allocator instance it was given, and that instance is
\* the one stored in the box.
C15_ConstructorsZeroAllocate ==
    /\ \A k \in 1..Len(log) :
          (log[k].by.kind = "box" /\ log[k].call # "dealloc") =>
              log[k].call = "alloc_zeroed"
    /\ \A i \in Boxes :
          (Allocating(boxes[i]) /\ NonZeroSized(boxes[i])) =>
              /\ Cardinality(AllocsBy(ByBox(i))) = 1
              /\ \A k \in AllocsBy(ByBox(i)) :
                    log[k].call = "alloc_zeroed" /\ log[k].a = boxes[i].a0
              /\ boxes[i].origin = "new" => boxes[i].a0 = "Global"
              /\ boxes[i].origin = "heap_init" => boxes[i].a0 = "Global"
    /\ ConstructorReturned =>
          LET i == lastOp.id
          IN  /\ boxes[i].a = lastOp.a /\ boxes[i].a0 = lastOp.a
              /\ NonZeroSized(boxes[i]) =>
                    /\ log[Len(log)].call = "alloc_zeroed"
                    /\ log[Len(log)].a = lastOp.a
                    /\ log[Len(log)].by = ByBox(i)
                    /\ BoxImage(i) = [k \in 1..size_of(boxes[i].T) |-> 0]
    /\ \A h \in 1..Len(handles) :
          boxes[handles[h].box].origin = "heap_init" =>
              \A k \in 1..Len(handles[h].seen) : handles[h].seen[k] = 0

C15_Witness ==
    /\ ConstructorReturned
    /\ lastOp.name = "new_with_allocator" /\ lastOp.a = "A2"
    /\ NonZeroSized(boxes[lastOp.id])
    /\ boxes[lastOp.id].a = "A2"
    /\ log[Len(log)].call = "alloc_zeroed" /\ log[Len(log)].a = "A2"
    /\ BoxImage(lastOp.id) = << 0, 0, 0, 0, 0, 0, 0, 0 >>

\* The last n calls of the log are all of one of the given kinds.
LastCalls(n, calls) ==
    \A k \in (Len(log) - n + 1)..Len(log) : log[k].call \in calls

\* C16: every public operation makes at most one allocator call: new,
\* new_with_allocator and heap_init make exactly one allocating call for a
\* non-zero-sized T (also when it is refused) and none for a zero-sized T;
\* drop and dealloc_buffer make at most one call, a deallocate; ptr, alloc,
\* alloc_mut, from_raw_parts, from_box and into_box make none.
C16_AtMostOneAllocatorCall ==
    /\ lastOp.name \in {"new", "new_with_allocator", "heap_init"} =>
          /\ status = "running" =>
                lastOp.calls = IF NonZeroSized(boxes[lastOp.id]) THEN 1 ELSE 0
          /\ status # "running" => lastOp.calls = 1 /\ Refused(Len(log))
          /\ LastCalls(lastOp.calls, {"alloc_zeroed", "alloc"})
    /\ lastOp.name \in {"drop", "dealloc_buffer"} =>
          /\ lastOp.calls <= 1
          /\ LastCalls(lastOp.calls, {"dealloc"})
          /\ ~NonZeroSized(boxes[lastOp.id]) => lastOp.calls = 0
    /\ lastOp.name \in {"ptr", "alloc", "alloc_mut", "from_raw_parts",
                         "from_box", "into_box"} =>
          lastOp.calls = 0
    /\ lastOp.name \in {"new", "new_with_allocator", "heap_init", "drop",
                         "dealloc_buffer", "ptr", "alloc", "alloc_mut",
                         "from_raw_parts", "from_box", "into_box"} =>
          lastOp.calls <= 1

C16_Witness ==
    /\ lastOp.name = "from_box" /\ lastOp.calls = 0
    /\ boxes[lastOp.id].origin = "from_box" /\ NonZeroSized(boxes[lastOp.id])
    /\ slices[Len(slices)].state = "forgotten" /\ slices[Len(slices)].len = 1
    /\ \E b \in live : b.a = "Global" /\ b.addr = boxes[lastOp.id].ptr
    /\ log[Len(log)].by = BySlice(Len(slices))
====
